---- MODULE Spec2Model ----
(***************************************************************************)
(* Model of the Learner process of ds/learner.py: the replay client with   *)
(* its retry loops, the training loop, the lazily started evaluation       *)
(* thread, the Flask parameter server and the websocket actor hub.         *)
(***************************************************************************)
EXTENDS Integers, Sequences, FiniteSets, TLC

\* ------------------------------------------------------------------ bounds
MaxRetry   == 2   \* failed network attempts the replay service may inflict on one call
MaxSamples == 4   \* sample() calls of one run
MaxServed  == 1   \* HTTP requests answered by the parameter server
NConns     == 2   \* websocket connections accepted by the hub
MaxBcast   == 1   \* broadcasts issued
NAgents    == 2   \* agents of the evaluation environment
MaxEnvSteps == 2  \* environment steps of one evaluation cycle
MaxEval    == 1   \* completed evaluation cycles

NPorts     == 2   \* distinct port numbers an option or the config file may carry

Conns  == 1..NConns
Agents == 1..NAgents

\* ------------------------------------------------------------------ state
VARIABLES
  process,      \* "init_config" | "init_env" | "run" | "running" | "failed" |
                \* "terminated" : the operating-system process, from __init__ on
  \* --- configuration (Learner._init_config, _init_env)
  argv,         \* the (option, argument) pairs of the command line
  config_file,  \* the learner_port key of the file named by --config, 0 when absent
  learner_port, \* self._learner_port
  build_port,   \* self._build_port
  base_port,    \* the port the environment was opened on, 0 before _init_env
  listen,       \* the port the Flask server is bound to, 0 before app.run
  \* --- training thread (Learner._run_training_client) and its replay calls
  tpc,          \* "clear" | "sample" | "train" | "update" | "crashed"
  tcrash,       \* why the training thread ended: "none" | "json" | "start" | "train"
  att,          \* network attempts made by the replay call in progress
  fails,        \* attempts of the call in progress that raised
  r,            \* the response object bound by the last attempt that did not raise
  data,         \* the batch returned by the last _get_sampled_data
  lastRet,      \* how the last replay call ended
  nSample, nNonEmpty, nTrainCalls, nTrainDone, nUpdates, nClear,
  lastUpdate,   \* the last PriorityUpdate posted
  td_errors,    \* td_errors returned by the last training step
  \* --- model (self.sac)
  params,       \* the policy arrays, each tagged with the training step that wrote it
  \* --- evaluation thread (Learner._start_policy_evaluation)
  evalStarted,  \* Thread._started of t_evaluation
  epc,          \* "new" | "reset" | "cycle" | "step" | "dead"
  nStart,       \* calls of t_evaluation.start()
  eval_step, all_done, all_cumulative_rewards, envSteps, lastSummary,
  \* --- parameter server (Learner._run_learner_server)
  nServed,      \* requests answered
  lastRead,     \* the last /get_policy_variables answer, with tpc and att when it was served
  lastTd,       \* the last /get_td_errors answer
  \* --- actor hub (WebsocketServer)
  net,          \* per connection: "none" | "open" | "closedOK" | "closedErr"
  hpc,          \* per connection handler: "none" | "recv" | "send" | "done"
  clients,      \* WebsocketServer._websocket_clients
  handshook,    \* connections that have sent "actor"
  resets,       \* connections that were sent "reset"
  lastLog,      \* the count of the last registry log line
  nBcast,       \* broadcasts started
  bpc,          \* "idle" | "iter" | "gather" : send_to_all
  recipients,   \* per broadcast: the registry entries its for loop has visited
  tasks,        \* send tasks created by gather and not yet run
  delivered,    \* per broadcast and connection: messages delivered
  bfailed,      \* sends of a broadcast that raised ConnectionClosed
  bresult       \* per broadcast: "none" | "ok" | "caught"

trainVars == <<tpc, tcrash, att, fails, r, data, lastRet, nSample, nNonEmpty,
               nTrainCalls, nTrainDone, nUpdates, nClear, lastUpdate, td_errors>>
modelVars == <<params>>
evalVars  == <<evalStarted, epc, nStart, eval_step, all_done,
               all_cumulative_rewards, envSteps, lastSummary>>
serverVars == <<nServed, lastRead, lastTd>>
connVars  == <<net, hpc, clients, handshook, resets, lastLog>>
bcastVars == <<nBcast, bpc, recipients, tasks, delivered, bfailed, bresult>>
hubVars   == <<connVars, bcastVars>>
cfgVars   == <<argv, config_file, learner_port, build_port, base_port, listen>>
vars == <<process, cfgVars, trainVars, modelVars, evalVars, serverVars, hubVars>>

\* ------------------------------------------------------------ configuration
DefaultLearnerPort == 61001
DefaultBuildPort   == 5006
Ports == 1..NPorts

\* The options of the command line as (option, argument) pairs, at most one
\* of each; getopt.getopt returns long options with their leading "--".
OptNames == {"--config", "--learner_port", "--build_port", "--replay_port"}
ArgOf(name) == IF name = "--config" THEN {0} ELSE Ports
Argvs ==
  {a \in SUBSET (OptNames \X (Ports \cup {0})) :
     /\ \A o \in a : o[2] \in ArgOf(o[1])
     /\ \A o, p \in a : o[1] = p[1] => o = p}

\* 'replay_port' is declared without "=": getopt raises GetoptError when it
\* is given an argument, and _init_config raises Exception('ARGS ERROR').
GetoptRaises(opts) == \E o \in opts : o[1] = "--replay_port"

HasOpt(opts, name) == \E o \in opts : o[1] = name
Arg(opts, name) == (CHOOSE o \in opts : o[1] = name)[2]

\* for k, v in config_file.items(): `elif k == 'learner_port': self._learner_port = v`
FromConfigFile(opts, file, lp) ==
  IF HasOpt(opts, "--config") /\ file # 0 THEN file ELSE lp

\* `if opt == 'learner_port': config['learner_port'] == int(arg)`: the option
\* is compared with its name without the dashes, and the body compares.
CliLearnerPort(opts, lp) ==
  IF HasOpt(opts, "learner_port") THEN lp ELSE lp

\* `elif opt == '--build_port': self._build_port = int(arg)`
CliBuildPort(opts, bp) ==
  IF HasOpt(opts, "--build_port") THEN Arg(opts, "--build_port") ELSE bp

\* _init_config: getopt, the config file, then the options.
ParseConfig ==
  /\ process = "init_config"
  /\ IF GetoptRaises(argv)
       THEN /\ process' = "failed"
            /\ UNCHANGED <<learner_port, build_port>>
       ELSE /\ learner_port' =
                 CliLearnerPort(argv, FromConfigFile(argv, config_file, learner_port))
            /\ build_port' = CliBuildPort(argv, build_port)
            /\ process' = "init_env"
  /\ UNCHANGED <<argv, config_file, base_port, listen, trainVars, modelVars,
                 evalVars, serverVars, hubVars>>

\* _init_env: UnityEnvironment(..., base_port=self._build_port)
InitEnv ==
  /\ process = "init_env"
  /\ base_port' = build_port
  /\ process' = "run"
  /\ UNCHANGED <<argv, config_file, learner_port, build_port, listen, trainVars,
                 modelVars, evalVars, serverVars, hubVars>>

\* _run up to the start of the threads; _run_learner_server reaches
\* app.run(host='0.0.0.0', port=self._learner_port).
Run ==
  /\ process = "run"
  /\ process' = "running"
  /\ listen' = learner_port
  /\ UNCHANGED <<argv, config_file, learner_port, build_port, base_port, trainVars,
                 modelVars, evalVars, serverVars, hubVars>>

\* ------------------------------------------------------------ replay client
\* What the replay service does to one network attempt: "exc" makes requests
\* raise (unreachable, connection error); any other value is the body of a
\* response.  An error status raises nothing in requests.get / requests.post.
Batches == {"B1", "B2"}
SampleBodies == {"empty", "garbage"} \cup Batches
PlainBodies == {"ok", "error_status"}

EmptyData == [points |-> <<>>, n |-> 0]

\* r.json(): the decoded body of a /sample response
Json(body) ==
  CASE body = "B1" -> [points |-> <<"a", "b">>, n |-> 2]
    [] body = "B2" -> [points |-> <<"c">>, n |-> 1]
    [] OTHER -> EmptyData

\* r.json() raises when the body is not JSON
JsonRaises(body) == body = "garbage"

\* `if data:` (truthiness of the decoded body)
Truthy(d) == d # EmptyData

\* A retry loop whose except branch leaves the loop as well.
RetryNextLeavesOnError(outcome) == "break"

\* The try/except/else of the three retry loops: an attempt that raised is
\* followed by sleep and another attempt, any other attempt by break.
RetryNext(outcome) == IF outcome = "exc" THEN "retry" ELSE "break"

\* The attempts of a call that raised, this one included
Failed(f, outcome) == IF outcome = "exc" THEN f + 1 ELSE f

NoRet == [op |-> "none", att |-> 0, fails |-> 0, body |-> "none",
          result |-> EmptyData, raised |-> FALSE]

Ret(op, a, f, body, result, raised) ==
  [op |-> op, att |-> a, fails |-> f, body |-> body, result |-> result,
   raised |-> raised]


\* ------------------------------------------------------------------- model
\* A training step that has written only the first array.
TrainWriteTorn(p, step) == [p EXCEPT ![1] = step]

\* self.sac.train: the snapshot handle is replaced as a whole by the arrays of
\* the new training step.
TrainWrite(p, step) == [i \in DOMAIN p |-> step]

\* self.sac.get_policy_variables: a copy of the current snapshot
Snapshot(p) == p

\* td_errors of the training step `step` on batch d: one per transition
TdErrors(d, step) == [i \in 1..d.n |-> <<step, i>>]

\* A forward pass that also moves the parameters.
InferenceWrites(p) == [i \in DOMAIN p |-> p[i] + 1]

\* The parameters after self.sac.get_policy_variables, self.sac.get_td_error,
\* self.sac.choose_action or self.sac.write_constant_summaries: these read the
\* model and assign none of its variables.
Inference(p) == p

\* self.sac.get_td_error(*trans): one value per transition, parameters untouched
GetTdError(p, n) == [i \in 1..n |-> <<p[1], i>>]

\* ------------------------------------------------------------------ Init
\* The threads, the model and the hub before any of them has taken a step.
InitThreads ==
  /\ tpc = "clear" /\ tcrash = "none" /\ att = 0 /\ fails = 0
  /\ r = "none" /\ data = EmptyData /\ lastRet = NoRet
  /\ nSample = 0 /\ nNonEmpty = 0 /\ nTrainCalls = 0 /\ nTrainDone = 0
  /\ nUpdates = 0 /\ nClear = 0
  /\ lastUpdate = [points |-> <<>>, td_errors |-> <<>>]
  /\ td_errors = <<>>
  /\ params = <<0, 0>>
  /\ evalStarted = FALSE /\ epc = "new" /\ nStart = 0
  /\ eval_step = 0
  /\ all_done = [i \in Agents |-> FALSE]
  /\ all_cumulative_rewards = [i \in Agents |-> 0]
  /\ envSteps = 0
  /\ lastSummary = [step |-> -1, rewards |-> [i \in Agents |-> 0]]
  /\ nServed = 0 /\ lastTd = <<>>
  /\ lastRead = [arrays |-> <<0, 0>>, during |-> "none", retry |-> 0]
  /\ net = [c \in Conns |-> "none"]
  /\ hpc = [c \in Conns |-> "none"]
  /\ clients = {}
  /\ handshook = {}
  /\ resets = {}
  /\ lastLog = -1
  /\ nBcast = 0 /\ bpc = "idle"
  /\ recipients = [b \in 1..MaxBcast |-> {}]
  /\ tasks = {}
  /\ delivered = [b \in 1..MaxBcast |-> [c \in Conns |-> 0]]
  /\ bfailed = {}
  /\ bresult = [b \in 1..MaxBcast |-> "none"]

\* The process started without options, configured and with its server bound.
Init ==
  /\ process = "running"
  /\ argv = {} /\ config_file = 0
  /\ learner_port = DefaultLearnerPort /\ build_port = DefaultBuildPort
  /\ base_port = DefaultBuildPort /\ listen = DefaultLearnerPort
  /\ InitThreads

Running == process = "running"

\* ---------------------------------------------------------- training thread
\* A loop whose body begins with the clearing of the replay buffer.
LoopHeadClears == "clear"

\* `while True:` of _run_training_client: every iteration begins with
\* data = self._get_sampled_data(); _clear_replay_buffer() precedes the loop.
LoopHead == "sample"

\* One pass of the while loop of _clear_replay_buffer.
ClearAttempt(o) ==
  /\ Running /\ tpc = "clear"
  /\ o = "exc" => fails < MaxRetry
  /\ nClear' = IF att = 0 THEN nClear + 1 ELSE nClear
  /\ IF RetryNext(o) = "retry"
       THEN /\ att' = att + 1 /\ fails' = Failed(fails, o)
            /\ UNCHANGED <<tpc, lastRet>>
       ELSE /\ lastRet' = Ret("clear", att + 1, Failed(fails, o), o, EmptyData, FALSE)
            /\ att' = 0 /\ fails' = 0
            /\ tpc' = "sample"
  /\ UNCHANGED <<process, cfgVars, tcrash, r, data, nSample, nNonEmpty, nTrainCalls,
                 nTrainDone, nUpdates, lastUpdate, td_errors, modelVars,
                 evalVars, serverVars, hubVars>>

\* t_evaluation.is_alive()
IsAlive == evalStarted /\ epc # "dead"

\* One pass of the while loop of _get_sampled_data; on break, `return r.json()`
\* and the caller's `if data:` with the lazy start of the evaluation thread.
SampleAttempt(o) ==
  /\ Running /\ tpc = "sample"
  /\ att = 0 => nSample < MaxSamples
  /\ o = "exc" => fails < MaxRetry
  /\ nSample' = IF att = 0 THEN nSample + 1 ELSE nSample
  /\ IF RetryNext(o) = "retry"
       THEN /\ att' = att + 1 /\ fails' = Failed(fails, o)
            /\ UNCHANGED <<tpc, tcrash, r, data, lastRet, nNonEmpty, evalStarted,
                           epc, nStart>>
       ELSE /\ r' = o
            /\ att' = 0 /\ fails' = 0
            /\ IF JsonRaises(r')
                 THEN /\ lastRet' = Ret("sample", att + 1, Failed(fails, o), o, EmptyData, TRUE)
                      /\ tpc' = "crashed" /\ tcrash' = "json"
                      /\ UNCHANGED <<data, nNonEmpty, evalStarted, epc, nStart>>
                 ELSE /\ data' = Json(r')
                      /\ lastRet' = Ret("sample", att + 1, Failed(fails, o), o, data', FALSE)
                      /\ IF ~Truthy(data')
                           THEN /\ tpc' = LoopHead
                                /\ UNCHANGED <<tcrash, nNonEmpty, evalStarted, epc, nStart>>
                           ELSE /\ nNonEmpty' = nNonEmpty + 1
                                /\ IF IsAlive
                                     THEN /\ tpc' = "train"
                                          /\ UNCHANGED <<tcrash, evalStarted, epc, nStart>>
                                     ELSE /\ nStart' = nStart + 1
                                          /\ IF evalStarted
                                               THEN \* RuntimeError: threads can only be started once
                                                    /\ tpc' = "crashed" /\ tcrash' = "start"
                                                    /\ UNCHANGED <<evalStarted, epc>>
                                               ELSE /\ evalStarted' = TRUE /\ epc' = "reset"
                                                    /\ tpc' = "train"
                                                    /\ UNCHANGED tcrash
  /\ UNCHANGED <<process, cfgVars, nTrainCalls, nTrainDone, nUpdates, nClear, lastUpdate,
                 td_errors, modelVars, eval_step, all_done, all_cumulative_rewards,
                 envSteps, lastSummary, serverVars, hubVars>>

\* self.sac.train(s, a, r, s_, done, is_weights)
TrainStep(ok) ==
  /\ Running /\ tpc = "train"
  /\ nTrainCalls' = nTrainCalls + 1
  /\ IF ok
       THEN /\ params' = TrainWrite(params, nTrainDone + 1)
            /\ td_errors' = TdErrors(data, nTrainDone + 1)
            /\ nTrainDone' = nTrainDone + 1
            /\ tpc' = "update"
            /\ UNCHANGED tcrash
       ELSE /\ tpc' = "crashed" /\ tcrash' = "train"
            /\ UNCHANGED <<params, td_errors, nTrainDone>>
  /\ UNCHANGED <<process, cfgVars, att, fails, r, data, lastRet, nSample, nNonEmpty,
                 nUpdates, nClear, lastUpdate, evalVars, serverVars, hubVars>>

\* A payload that pairs the td_errors with the points less the last one.
UpdatePayloadDropsPoint(d, td) ==
  [points |-> SubSeq(d.points, 1, Len(d.points) - 1), td_errors |-> td]

\* json={'points': points, 'td_errors': td_errors} with data['points'] and
\* td_errors.tolist()
UpdatePayload(d, td) == [points |-> d.points, td_errors |-> td]

\* One pass of the while loop of _update_td_errors(data['points'], td_errors.tolist())
UpdateAttempt(o) ==
  /\ Running /\ tpc = "update"
  /\ o = "exc" => fails < MaxRetry
  /\ IF RetryNext(o) = "retry"
       THEN /\ att' = att + 1 /\ fails' = Failed(fails, o)
            /\ UNCHANGED <<tpc, lastRet, nUpdates, lastUpdate>>
       ELSE /\ lastRet' = Ret("update", att + 1, Failed(fails, o), o, EmptyData, FALSE)
            /\ att' = 0 /\ fails' = 0
            /\ nUpdates' = nUpdates + 1
            /\ lastUpdate' = UpdatePayload(data, td_errors)
            /\ tpc' = LoopHead
  /\ UNCHANGED <<process, cfgVars, tcrash, r, data, nSample, nNonEmpty, nTrainCalls,
                 nTrainDone, nClear, td_errors, modelVars, evalVars, serverVars,
                 hubVars>>

\* -------------------------------------------------------- evaluation thread
\* eval_step = 0 and the first self.env.reset
EvalReset(ok) ==
  /\ Running /\ epc = "reset"
  /\ epc' = IF ok THEN "cycle" ELSE "dead"
  /\ eval_step' = 0
  /\ UNCHANGED <<process, cfgVars, trainVars, modelVars, evalStarted, nStart, all_done,
                 all_cumulative_rewards, envSteps, lastSummary, serverVars, hubVars>>

\* Head of the outer while loop: reset when global_done, fresh all_done and
\* all_cumulative_rewards.
EvalCycle(global_done, ok) ==
  /\ Running /\ epc = "cycle"
  /\ eval_step < MaxEval
  /\ IF global_done /\ ~ok
       THEN /\ epc' = "dead"
            /\ UNCHANGED <<all_done, all_cumulative_rewards, envSteps>>
       ELSE /\ all_done' = [i \in Agents |-> FALSE]
            /\ all_cumulative_rewards' = [i \in Agents |-> 0]
            /\ envSteps' = 0
            /\ epc' = "step"
  /\ UNCHANGED <<process, cfgVars, trainVars, modelVars, evalStarted, nStart, eval_step,
                 lastSummary, serverVars, hubVars>>

\* An accumulation that goes on after the agent has reported done.
AccumulateAfterDone(cum, done, rewards) == [i \in Agents |-> cum[i] + rewards[i]]

\* The body of `for i in range(len_agents)`
Accumulate(cum, done, rewards) ==
  [i \in Agents |-> IF ~done[i] THEN cum[i] + rewards[i] ELSE cum[i]]
MarkDone(done, local_dones) == [i \in Agents |-> done[i] \/ local_dones[i]]

\* One pass of `while False in all_done`; when it was the last one, the
\* summaries are written and eval_step is incremented.
EvalStep(rewards, local_dones, ok) ==
  /\ Running /\ epc = "step"
  /\ envSteps < MaxEnvSteps
  /\ IF ~ok
       THEN /\ epc' = "dead"
            /\ UNCHANGED <<all_done, all_cumulative_rewards, envSteps, eval_step,
                           lastSummary>>
       ELSE /\ all_cumulative_rewards' = Accumulate(all_cumulative_rewards, all_done, rewards)
            /\ all_done' = MarkDone(all_done, local_dones)
            /\ envSteps' = envSteps + 1
            /\ IF \E i \in Agents : ~all_done'[i]
                 THEN UNCHANGED <<epc, eval_step, lastSummary>>
                 ELSE /\ lastSummary' = [step |-> eval_step,
                                         rewards |-> all_cumulative_rewards']
                      /\ eval_step' = eval_step + 1
                      /\ epc' = "cycle"
  /\ params' = Inference(params)
  /\ UNCHANGED <<process, cfgVars, trainVars, evalStarted, nStart, serverVars, hubVars>>

\* --------------------------------------------------------- parameter server
\* Handlers that wait until the training thread is between two calls.
ServerWaitsForTraining == att = 0 /\ tpc # "train"

\* t_learner is a thread of its own (259-262) and the handlers of
\* _run_learner_server take no lock and wait for nothing the training thread
\* holds: a request is served whatever the training thread is doing.
ServerReady == TRUE

\* GET /get_policy_variables
GetPolicyVariables ==
  /\ Running /\ nServed < MaxServed /\ ServerReady
  /\ lastRead' = [arrays |-> Snapshot(params), during |-> tpc, retry |-> att]
  /\ nServed' = nServed + 1
  /\ params' = Inference(params)
  /\ UNCHANGED <<process, cfgVars, trainVars, evalVars, lastTd, hubVars>>

\* POST /get_td_errors
GetTdErrors(n) ==
  /\ Running /\ nServed < MaxServed /\ ServerReady
  /\ lastTd' = GetTdError(params, n)
  /\ nServed' = nServed + 1
  /\ params' = Inference(params)
  /\ UNCHANGED <<process, cfgVars, trainVars, evalVars, lastRead, hubVars>>

\* The process is ended from outside (there is no shutdown protocol).
Kill ==
  /\ Running
  /\ process' = "terminated"
  /\ UNCHANGED <<cfgVars, trainVars, modelVars, evalVars, serverVars, hubVars>>


\* ----------------------------------------------------------------- actor hub
\* An event loop that runs other coroutines while send_to_all is in its for loop.
LoopAlwaysFree == TRUE

\* `for client in self._websocket_clients: tasks.append(client.send(message))`
\* holds no await: the event loop runs no other coroutine until the loop is
\* left for `await asyncio.gather(*tasks)`.
LoopIsFree == bpc # "iter"

Msgs == {"actor", "junk"}

\* `async for message in websocket`: the iterator ends silently on a normal
\* closure (codes 1000, 1001) and raises ConnectionClosed on any other.
IterRaises(state) == state = "closedErr"

\* websocket.send on a connection that is not open raises ConnectionClosed
SendRaises(state) == state # "open"

\* A removal that leaves the registry as it is.
RemoveKeeps(cl, c) == cl

\* self._websocket_clients.remove(websocket) inside try/except: pass
Remove(cl, c) == cl \ {c}

\* A log line that counts the connections accepted instead of the registry.
PrintCountsConnections(cl) == Cardinality({c \in Conns : net[c] # "none"})

\* f'{len(self._websocket_clients)} active actors': the count that is logged
print_websocket_clients(cl) == Cardinality(cl)

\* The except branch of _websocket_open: remove, and log when it was a member.
Unregister(c) ==
  /\ clients' = Remove(clients, c)
  /\ lastLog' = IF c \in clients THEN print_websocket_clients(clients') ELSE lastLog

\* websockets.serve accepts a connection and starts _websocket_open for it.
\* Connections are numbered in the order in which they are accepted.
Connect(c) ==
  /\ Running /\ LoopIsFree /\ net[c] = "none"
  /\ \A d \in Conns : d < c => net[d] # "none"
  /\ net' = [net EXCEPT ![c] = "open"]
  /\ hpc' = [hpc EXCEPT ![c] = "recv"]
  /\ UNCHANGED <<process, cfgVars, trainVars, modelVars, evalVars, serverVars, clients,
                 handshook, resets, lastLog, bcastVars>>

\* The actor closes (how = "closedOK") or the transport fails (how = "closedErr").
Disconnect(c, how) ==
  /\ Running /\ net[c] = "open"
  /\ net' = [net EXCEPT ![c] = how]
  /\ UNCHANGED <<process, cfgVars, trainVars, modelVars, evalVars, serverVars, hpc, clients,
                 handshook, resets, lastLog, bcastVars>>

\* A test that takes every message for the handshake.
AnyMessageRegisters(m) == TRUE

\* `if message == 'actor':`
IsHandshake(m) == m = "actor"

\* One message of the `async for` loop, up to the await of websocket.send.
OnMessage(c, m) ==
  /\ Running /\ LoopIsFree /\ hpc[c] = "recv" /\ net[c] = "open"
  /\ handshook' = IF m = "actor" THEN handshook \cup {c} ELSE handshook
  /\ IF IsHandshake(m)
       THEN /\ clients' = clients \cup {c}
            /\ lastLog' = print_websocket_clients(clients')
            /\ hpc' = [hpc EXCEPT ![c] = "send"]
       ELSE UNCHANGED <<clients, lastLog, hpc>>
  /\ UNCHANGED <<process, cfgVars, trainVars, modelVars, evalVars, serverVars, net, resets,
                 bcastVars>>

\* await websocket.send('reset')
SendReset(c) ==
  /\ Running /\ LoopIsFree /\ hpc[c] = "send"
  /\ IF SendRaises(net[c])
       THEN /\ Unregister(c)
            /\ hpc' = [hpc EXCEPT ![c] = "done"]
            /\ UNCHANGED resets
       ELSE /\ resets' = resets \cup {c}
            /\ hpc' = [hpc EXCEPT ![c] = "recv"]
            /\ UNCHANGED <<clients, lastLog>>
  /\ UNCHANGED <<process, cfgVars, trainVars, modelVars, evalVars, serverVars, net, handshook,
                 bcastVars>>

\* The handler, suspended in the `async for`, learns that the connection ended.
OnClosed(c) ==
  /\ Running /\ LoopIsFree /\ hpc[c] = "recv" /\ net[c] \in {"closedOK", "closedErr"}
  /\ hpc' = [hpc EXCEPT ![c] = "done"]
  /\ IF IterRaises(net[c])
       THEN Unregister(c)
       ELSE UNCHANGED <<clients, lastLog>>
  /\ UNCHANGED <<process, cfgVars, trainVars, modelVars, evalVars, serverVars, net, handshook,
                 resets, bcastVars>>

\* A gather that cancels the other sends of the broadcast on the first failure.
GatherCancelsRest(ts, b) == {t \in ts : t[1] # b}

\* asyncio.gather without return_exceptions: the first exception is handed to
\* the awaiting coroutine, the other awaitables are not cancelled.
GatherAfterFailure(ts, b) == ts

\* send_to_all is entered: `tasks = []` and the for loop over the registry begins.
BroadcastStart ==
  /\ Running /\ bpc = "idle" /\ nBcast < MaxBcast
  /\ nBcast' = nBcast + 1
  /\ bpc' = "iter"
  /\ UNCHANGED <<process, cfgVars, trainVars, modelVars, evalVars, serverVars, connVars,
                 recipients, tasks, delivered, bfailed, bresult>>

\* One pass of the for loop: tasks.append(client.send(message)) for a registry
\* entry not visited yet (a set is iterated in no particular order).
BroadcastVisit(c) ==
  /\ Running /\ bpc = "iter" /\ c \in clients \ recipients[nBcast]
  /\ recipients' = [recipients EXCEPT ![nBcast] = @ \cup {c}]
  /\ tasks' = tasks \cup {<<nBcast, c>>}
  /\ UNCHANGED <<process, cfgVars, trainVars, modelVars, evalVars, serverVars, connVars,
                 nBcast, bpc, delivered, bfailed, bresult>>

\* The for loop is exhausted: `await asyncio.gather(*tasks)` hands the loop back.
BroadcastGather ==
  /\ Running /\ bpc = "iter" /\ clients \subseteq recipients[nBcast]
  /\ bpc' = "gather"
  /\ UNCHANGED <<process, cfgVars, trainVars, modelVars, evalVars, serverVars, connVars,
                 nBcast, recipients, tasks, delivered, bfailed, bresult>>

\* One client.send(message) gathered by broadcast b runs.
SendTask(b, c) ==
  /\ Running /\ LoopIsFree /\ <<b, c>> \in tasks
  /\ IF SendRaises(net[c])
       THEN /\ bfailed' = bfailed \cup {<<b, c>>}
            /\ tasks' = GatherAfterFailure(tasks, b) \ {<<b, c>>}
            /\ IF bpc = "gather" /\ b = nBcast
                 THEN /\ bresult' = [bresult EXCEPT ![b] = "caught"]
                      /\ bpc' = "idle"
                 ELSE UNCHANGED <<bresult, bpc>>
            /\ UNCHANGED delivered
       ELSE /\ delivered' = [delivered EXCEPT ![b][c] = @ + 1]
            /\ tasks' = tasks \ {<<b, c>>}
            /\ UNCHANGED <<bfailed, bresult, bpc>>
  /\ UNCHANGED <<process, cfgVars, trainVars, modelVars, evalVars, serverVars, connVars,
                 nBcast, recipients>>

\* gather completes with every send done: send_to_all returns.
BroadcastDone ==
  /\ Running /\ bpc = "gather"
  /\ ~ \E c \in Conns : <<nBcast, c>> \in tasks
  /\ bresult' = [bresult EXCEPT ![nBcast] = "ok"]
  /\ bpc' = "idle"
  /\ UNCHANGED <<process, cfgVars, trainVars, modelVars, evalVars, serverVars, connVars,
                 nBcast, recipients, tasks, delivered, bfailed>>

\* ------------------------------------------------------------ specifications
TrainNext ==
  \/ \E o \in {"exc"} \cup PlainBodies : ClearAttempt(o)
  \/ \E o \in {"exc"} \cup SampleBodies : SampleAttempt(o)
  \/ \E ok \in BOOLEAN : TrainStep(ok)
  \/ \E o \in {"exc"} \cup PlainBodies : UpdateAttempt(o)

EvalNext ==
  \/ \E ok \in BOOLEAN : EvalReset(ok)
  \/ \E gd \in BOOLEAN, ok \in BOOLEAN : EvalCycle(gd, ok)
  \/ \E rw \in [Agents -> 0..1], ld \in [Agents -> BOOLEAN], ok \in BOOLEAN :
        EvalStep(rw, ld, ok)

ServerNext ==
  \/ GetPolicyVariables
  \/ \E n \in 1..2 : GetTdErrors(n)

ConnNext ==
  \/ \E c \in Conns : Connect(c)
  \/ \E c \in Conns, how \in {"closedOK", "closedErr"} : Disconnect(c, how)
  \/ \E c \in Conns, m \in Msgs : OnMessage(c, m)
  \/ \E c \in Conns : SendReset(c)
  \/ \E c \in Conns : OnClosed(c)

HubNext ==
  \/ ConnNext
  \/ BroadcastStart
  \/ \E c \in Conns : BroadcastVisit(c)
  \/ BroadcastGather
  \/ \E b \in 1..MaxBcast, c \in Conns : SendTask(b, c)
  \/ BroadcastDone

Next == TrainNext \/ EvalNext \/ ServerNext \/ HubNext \/ Kill

Spec == Init /\ [][Next]_vars

\* The training thread and its replay calls.
SpecReplay == Init /\ [][TrainNext]_vars

\* The training thread and the parameter server's request handlers.
SpecServe == Init /\ [][TrainNext \/ ServerNext]_vars

\* The training thread and the evaluation thread it starts.
SpecLoops == Init /\ [][TrainNext \/ EvalNext]_vars

\* Every thread of the process but the hub's event loop.
SpecProcess == Init /\ [][TrainNext \/ EvalNext \/ ServerNext \/ Kill]_vars

\* The hub's event loop alone.
SpecHub == Init /\ [][HubNext]_vars

\* The connection handlers of the hub beside a training thread whose replay
\* service and model do not fail.
SteadyTrainNext ==
  \/ ClearAttempt("ok")
  \/ \E o \in {"empty"} \cup Batches : SampleAttempt(o)
  \/ TrainStep(TRUE)
  \/ UpdateAttempt("ok")

SpecIsolation == Init /\ [][ConnNext \/ SteadyTrainNext]_vars

\* The evaluation loop with an environment that does not fail and pays 1 a step.
SteadyEvalNext ==
  \/ EvalReset(TRUE)
  \/ \E gd \in BOOLEAN : EvalCycle(gd, TRUE)
  \/ \E ld \in [Agents -> BOOLEAN] : EvalStep([i \in Agents |-> 1], ld, TRUE)

\* The training loop with a replay service that answers every call at once
\* and always with the same batch.
OneBatchTrainNext ==
  \/ ClearAttempt("ok")
  \/ SampleAttempt("B1")
  \/ TrainStep(TRUE)
  \/ UpdateAttempt("ok")

\* The evaluation thread, started by the first batch the training loop gets.
\* Learner(argv) with the command line and the config file drawn from the
\* bounded sets, up to the first request served.
InitConfig ==
  /\ process = "init_config"
  /\ argv \in Argvs /\ config_file \in Ports \cup {0}
  /\ learner_port = DefaultLearnerPort /\ build_port = DefaultBuildPort
  /\ base_port = 0 /\ listen = 0
  /\ InitThreads

ConfigNext == ParseConfig \/ InitEnv \/ Run \/ ServerNext

SpecConfig == InitConfig /\ [][ConfigNext]_vars

SpecEval ==
  Init /\ [][ClearAttempt("ok") \/ SampleAttempt("B1") \/ EvalNext \/ Kill]_vars

SpecModel == Init /\ [][OneBatchTrainNext \/ SteadyEvalNext \/ ServerNext]_vars


\* -------------------------------------------------------------------- claims
NoTaskOf(b) == ~ \E c \in Conns : <<b, c>> \in tasks

\* C1: a replay call (sample, update, clear) whose first N attempts raise and
\* whose next attempt does not returns normally after exactly N+1 attempts,
\* makes no attempt after the one that did not raise (while the call is in
\* progress every attempt so far has raised), and sample returns the decoded
\* body of that one attempt.
C1_ReturnsAfterFirstSuccess ==
  /\ att = fails
  /\ (lastRet.op # "none" /\ ~lastRet.raised) =>
       /\ lastRet.att = lastRet.fails + 1
       /\ lastRet.op = "sample" => lastRet.result = Json(lastRet.body)
  /\ (lastRet.op = "sample" /\ ~lastRet.raised) => data = lastRet.result

C1_Witness ==
  /\ lastRet.op = "sample" /\ ~lastRet.raised
  /\ lastRet.fails = MaxRetry /\ lastRet.att = MaxRetry + 1
  /\ lastRet.result = Json("B1") /\ data = Json("B1")
  /\ nClear = 1

\* C2: the registry holds exactly the connections that have sent "actor" and
\* whose disconnect the hub has not yet processed; every processed disconnect,
\* graceful or not, has removed the connection.
C2_RegistryIsHandshookAndConnected ==
  clients = {c \in Conns : c \in handshook /\ hpc[c] # "done"}

C4_EvaluationStartedOnce ==
  /\ nStart <= 1
  /\ nNonEmpty = 0 => nStart = 0
  /\ nNonEmpty >= 1 => nStart = 1

\* C5: the training loop trains once per non-empty sample and never on an
\* empty one, and posts one update per completed training step, with that
\* batch's points and that step's td_errors, before the next sample call.
C5_TrainAndUpdateOncePerBatch ==
  /\ tpc # "train" => nTrainCalls = nNonEmpty
  /\ tpc = "train" => nTrainCalls = nNonEmpty - 1
  /\ tpc # "update" => nUpdates = nTrainDone
  /\ tpc = "update" => nUpdates = nTrainDone - 1
  /\ lastRet.op = "update" =>
       lastUpdate = [points |-> data.points, td_errors |-> td_errors]
  /\ nUpdates >= 1 => Len(lastUpdate.points) > 0

\* C6: no replay call raises to its caller: a call is retrying or has
\* returned, and the training thread never ends on an error of a replay call.
C6_ReplayCallNeverRaises ==
  /\ ~lastRet.raised
  /\ tcrash # "json"

\* C7: once a send of a broadcast has failed on a dead connection, the
\* broadcast has returned and the connection's handler has ended, that
\* connection is no longer in the registry.
C7_FailedSendRemovesConnection ==
  \A b \in 1..MaxBcast, c \in Conns :
    (<<b, c>> \in bfailed /\ bpc = "idle" /\ hpc[c] = "done") => c \notin clients

\* C8 as stated: a connection that is registered and connected while a
\* broadcast to it is in flight receives it; as connections never reopen,
\* this is the claim that every connection registered and connected when the
\* broadcast was issued receives the message.
C8_ConnectedAtIssueIsReached ==
  [][\A b \in 1..MaxBcast, c \in Conns :
       (<<b, c>> \in tasks /\ net[c] = "open") =>
          \/ (<<b, c>> \in tasks' /\ net'[c] = "open")
          \/ delivered'[b][c] = 1]_vars

\* C8 amended: a broadcast delivers its message at most once per connection
\* and only to connections that were in the registry when it was issued, and
\* when all its sends have run, exactly once to every such connection that is
\* still connected, also when the send to another connection failed.
C8_BroadcastReachesRegistered ==
  \A b \in 1..MaxBcast :
    /\ \A c \in Conns : delivered[b][c] <= 1
    /\ \A c \in Conns : delivered[b][c] = 1 => c \in recipients[b]
    /\ \A c \in Conns : <<b, c>> \in tasks \cup bfailed => c \in recipients[b]
    /\ (b <= nBcast /\ NoTaskOf(b)) =>
         \A c \in recipients[b] : net[c] = "open" => delivered[b][c] = 1

C8_Witness ==
  \E c, d \in Conns :
    /\ <<1, c>> \in bfailed
    /\ delivered[1][d] = 1 /\ net[d] = "open"
    /\ NoTaskOf(1) /\ bresult[1] = "caught"

\* C9: once the model has failed in the training step or the environment in
\* the evaluation thread, nothing of the process runs any more: no thread, no
\* request handler and no connection handler takes a step.
C9_CollaboratorFaultEndsProcess ==
  [][(tcrash = "train" \/ epc = "dead") =>
       UNCHANGED <<trainVars, modelVars, evalVars, serverVars, hubVars>>]_vars

\* C10: a bad handshake message, or an I/O error seen by the connection's
\* handler, leaves that connection out of the registry and changes neither
\* the membership of any other connection nor the training thread.
C10_FaultIsIsolated ==
  [][\A c \in Conns :
       ( \/ (c \notin handshook /\ OnMessage(c, "junk"))
         \/ (net[c] = "closedErr" /\ hpc[c] \in {"recv", "send"} /\ hpc'[c] = "done") )
       => /\ c \notin clients'
          /\ clients' \ {c} = clients \ {c}
          /\ UNCHANGED <<trainVars, modelVars>>]_vars

C10_Witness ==
  \E c, d \in Conns :
    /\ c # d
    /\ net[c] = "closedErr" /\ hpc[c] = "done" /\ c \in handshook /\ c \notin clients
    /\ d \in clients
    /\ nTrainDone >= 1 /\ tpc = "update"

\* C11: in every PriorityUpdate posted to the replay service the points list
\* and the td_errors list have the same length.
C11_PointsPairedWithTdErrors ==
  Len(lastUpdate.points) = Len(lastUpdate.td_errors)

C11_Witness ==
  /\ nUpdates = 2
  /\ lastUpdate.points = <<"c">> /\ Len(lastUpdate.td_errors) = 1
  /\ lastRet.op = "update" /\ lastRet.fails = 1

\* C12: clear() is invoked exactly once per run of the training loop, it
\* returns before the first sample() attempt, and is never invoked again.
C12_ClearOnceBeforeSampling ==
  /\ nClear <= 1
  /\ tpc = "clear" => nSample = 0 /\ nNonEmpty = 0 /\ nUpdates = 0
  /\ tpc # "clear" => nClear = 1
  /\ nSample > 0 => nClear = 1 /\ tpc # "clear"

C12_Witness ==
  /\ nClear = 1 /\ nSample = 3 /\ nUpdates = 2
  /\ tpc = "sample" /\ att = 0

\* C13: on a handshake the hub adds the connection, logs the registry with a
\* count equal to its size, then replies "reset": a handler about to send
\* "reset" has its connection in the registry, every connection that was sent
\* "reset" was registered before, and the last logged count is the registry size.
C13_AddThenLogThenReset ==
  /\ \A c \in Conns : hpc[c] = "send" => c \in clients /\ c \in handshook
  /\ resets \subseteq handshook
  /\ lastLog # -1 => lastLog = Cardinality(clients)
  /\ clients # {} => lastLog # -1

C13_Witness ==
  /\ clients = {1, 2} /\ lastLog = 2
  /\ 1 \in resets /\ hpc[2] = "send" /\ hpc[1] = "recv"

\* C15: registry mutations are serialized with broadcasts: from the moment
\* send_to_all starts iterating over the registry until it has collected its
\* recipients no connection handler adds or removes an entry, and the
\* recipients collected are the registry as it was throughout.
C15_RegistryFixedWhileIterating ==
  [][ /\ bpc = "iter" => clients' = clients
      /\ bpc = "iter" /\ bpc' = "gather" => recipients'[nBcast] = clients
    ]_vars

C15_Witness ==
  /\ bpc = "iter" /\ clients = {1, 2} /\ recipients[nBcast] = {1}
  /\ net[2] = "closedErr" /\ hpc[2] = "recv"

\* C19: a connection is in the registry only if it has sent "actor": one that
\* has sent nothing or only other messages is not registered, is sent no
\* "reset" and is handed no broadcast; a connection that sends "actor" again
\* is registered once, the registry size counting distinct connections.
C19_OnlyHandshakenRegistered ==
  /\ clients \subseteq handshook
  /\ resets \subseteq handshook
  /\ \A c \in Conns : hpc[c] = "send" => c \in handshook
  /\ \A b \in 1..MaxBcast, c \in Conns :
       (c \in recipients[b] \/ <<b, c>> \in tasks \cup bfailed \/ delivered[b][c] > 0)
          => c \in handshook
  /\ Cardinality(clients) <= Cardinality(handshook)
  /\ lastLog # -1 => lastLog <= Cardinality(handshook)

C19_Witness ==
  /\ net[1] = "open" /\ net[2] = "open" /\ handshook = {1}
  /\ 1 \in resets /\ hpc[1] = "send" /\ hpc[2] = "recv"
  /\ clients = {1} /\ lastLog = 1
  /\ delivered[1][1] = 1 /\ delivered[1][2] = 0 /\ bresult[1] = "ok"

C17_ParamsChangeOnlyInTrainingStep ==
  [][ /\ params' # params =>
            tpc = "train" /\ tpc' = "update" /\ nTrainDone' = nTrainDone + 1
      /\ \A i \in DOMAIN params : params'[i] = nTrainDone'
    ]_vars

C17_Witness ==
  /\ nTrainDone = 1 /\ params = <<1, 1>>
  /\ nServed = 1 /\ lastTd = GetTdError(params, 2)
  /\ eval_step = 1 /\ lastSummary.step = 0

C16_CliPortOverrideTakesEffect ==
  /\ (listen # 0 /\ HasOpt(argv, "--learner_port")) =>
        listen = Arg(argv, "--learner_port")
  /\ (base_port # 0 /\ HasOpt(argv, "--build_port")) =>
        base_port = Arg(argv, "--build_port")

====
